---- MODULE Spec2Model ----
(***************************************************************************)
(* Log2SQLite (src/src/main.rs): scan a directory for log files whose name *)
(* contains a filter, match every line against a regex with named groups   *)
(* and insert one row per matching line into the SQLite table log_data,     *)
(* one transaction per file.                                                *)
(*                                                                          *)
(* Strings are sequences of one-character strings, so that substring        *)
(* containment and base names are computed, not assumed.  A path is the     *)
(* sequence of its components.  The store is the SQLite file: whether it    *)
(* exists, the columns of log_data (or NoTable) and the committed rows.     *)
(* Every fallible call of the program (each `?`) fails or succeeds by a     *)
(* choice of the environment.                                               *)
(***************************************************************************)
EXTENDS Integers, Sequences, FiniteSets, TLC

\* ------------------------------------------------------------------ bounds
MaxEntries == 2     \* entries of log_dir
MaxLines == 2       \* lines of a log file

\* ------------------------------------------------------------------ inputs
NoName == "<unnamed>"       \* capture_names() yields None for an unnamed group
NoTable == [present |-> FALSE, cols |-> <<>>]  \* the store holds no log_data
LogDir == "logs"

\* The patterns of the runs: an invalid one, and valid ones given by their
\* capture slots after group 0, in declaration order.
InvalidPattern == [valid |-> FALSE, slots |-> <<>>]
Patterns ==
    {InvalidPattern} \cup
    {[valid |-> TRUE, slots |-> s] :
        s \in { <<>>,
                <<"level", NoName, "code">>,
                <<"code", "level">>,
                <<"level", "filename">>,
                <<"filename">> }}

\* File names ("xae", "aE", "ea") and filters ("ae", "e", "").
NameSeq == << <<"x", "a", "e">>, <<"a", "E">>, <<"e", "a">> >>
Filters == { <<"a", "e">>, <<"e">>, <<>> }
NestedName == <<"a", "e">>  \* every subdirectory holds one regular file "ae"

\* Lines of a file: "full" matches and every group participates, "partial"
\* matches and the last named group does not participate, "nomatch" does not.
Contents ==
    { <<>>,
      SubSeq(<<"full", "nomatch", "full">>, 1, MaxLines),
      SubSeq(<<"nomatch", "partial", "full">>, 1, MaxLines),
      SubSeq(<<"partial", "full", "nomatch">>, 1, MaxLines) }

\* What a directory entry can be: a regular file, a regular file whose
\* metadata cannot be read, a subdirectory.
EntryVariants ==
    {[kind |-> "file", statOk |-> TRUE, lines |-> c] : c \in Contents} \cup
    {[kind |-> "file", statOk |-> FALSE, lines |-> <<>>],
     [kind |-> "dir", statOk |-> TRUE, lines |-> <<>>]}

NameSet == {NameSeq[i] : i \in 1..Len(NameSeq)}
Listings ==
    UNION {[S -> EntryVariants] :
              S \in {T \in SUBSET NameSet : Cardinality(T) <= MaxEntries}}

\* The entries of a listing in enumeration order.
EntriesOf(f) ==
    LET present == SelectSeq(NameSeq, LAMBDA n : n \in DOMAIN f)
    IN  [i \in 1..Len(present) |->
            [name |-> present[i], kind |-> f[present[i]].kind,
             statOk |-> f[present[i]].statOk, lines |-> f[present[i]].lines]]

\* The store before the run: absent, an empty database file, or a table left
\* by an earlier run, with one row.
PriorTable ==
    [present |-> TRUE,
     cols |-> << [name |-> "level", type |-> "TEXT"],
                 [name |-> "filename", type |-> "TEXT"] >>]
PriorRow == [cols |-> <<"level", "filename">>,
             vals |-> << <<"o">>, <<"o">> >>, src |-> <<0, 0>>]
InitStores ==
    { [exists |-> FALSE, table |-> NoTable, rows |-> <<>>],
      [exists |-> TRUE, table |-> NoTable, rows |-> <<>>],
      [exists |-> TRUE, table |-> PriorTable, rows |-> <<PriorRow>>] }

VARIABLES
    \* the environment's inputs, fixed for a run
    regex_pattern, file_filter, dirExists, entries, initStore,
    \* the store
    storeExists, table, rows,
    \* main
    pc, column_names, storeOpened, log_files, index, total_matches,
    \* process_file
    match_count, tx, insert_query, filename, values, lineNo,
    \* history of the run
    listed, opened, txStarted, returned, failures, failReason, failedAt,
    committedBefore

envVars == <<regex_pattern, file_filter, dirExists, entries, initStore>>
storeVars == <<storeExists, table, rows>>
mainVars == <<column_names, storeOpened, log_files, index, total_matches>>
fileVars == <<match_count, tx, insert_query, filename, values, lineNo>>
histVars == <<listed, opened, txStarted, returned, committedBefore>>
failVars == <<failures, failReason, failedAt>>
vars == <<envVars, storeVars, pc, mainVars, fileVars, histVars, failVars>>

\* ------------------------------------------------------------- pure parts
\* A compilation that accepts every pattern text.
RegexNewLazy(p) == TRUE

\* Regex::new: Ok for a valid pattern, Err otherwise.
RegexNew(p) == p.valid

\* regex.capture_names(): group 0 (unnamed), then the slots.
CaptureNames(p) == <<NoName>> \o p.slots

\* .flatten(): drop the None entries.
Flatten(names) == SelectSeq(names, LAMBDA n : n # NoName)

\* The file name column put first.
ColumnNamesFilenameFirst(p) == <<"filename">> \o Flatten(CaptureNames(p))

\* column_names: the named groups, then "filename".
ColumnNames(p) == Flatten(CaptureNames(p)) \o <<"filename">>

\* "CREATE TABLE IF NOT EXISTS log_data (<name> TEXT, ...)".
CreateTableQuery(cols) ==
    [ifNotExists |-> TRUE,
     cols |-> [i \in 1..Len(cols) |-> [name |-> cols[i], type |-> "TEXT"]]]

\* "INSERT INTO log_data (<names>) VALUES (?, ...)".
InsertQuery(cols) ==
    [cols |-> cols, placeholders |-> [i \in 1..Len(cols) |-> "?"]]

\* str::contains: ordinary, case-sensitive substring containment.
Contains(name, filter) ==
    \E i \in 0..(Len(name) - Len(filter)) :
        SubSeq(name, i + 1, i + Len(filter)) = filter

\* Path::file_name: the last component.
FileName(path) == path[Len(path)]

\* Path::is_file: TRUE for a regular file whose metadata can be read; a
\* metadata error is coerced to FALSE.
IsFile(e) == e.statOk /\ e.kind = "file"

\* A missing directory read as an empty one.
ReadDirAlwaysOk(exists) == TRUE

\* fs::read_dir: Err when the directory does not exist, else its entries.
ReadDirOk(exists) == exists

\* find_matching_files: the direct children that are files and whose name
\* contains the filter, in enumeration order.
MatchingFiles(es, filter) ==
    LET hit == SelectSeq(es, LAMBDA e : IsFile(e) /\ Contains(e.name, filter))
    IN  [i \in 1..Len(hit) |-> <<LogDir, hit[i].name>>]

\* The lines of the file at a path of log_files.
LinesOf(path) ==
    LET e == CHOOSE x \in {entries[i] : i \in 1..Len(entries)} :
                 x.name = FileName(path)
    IN  e.lines

\* regex.captures(&line): Some for a matching line.
IsMatch(line) == line # "nomatch"

\* captures.name(name): the text of a group that participated.
NamedGroups(p) == Flatten(p.slots)
CapturesName(p, line, name) ==
    LET gs == NamedGroups(p)
    IN  IF \A i \in 1..Len(gs) : gs[i] # name
          THEN [some |-> FALSE, str |-> <<>>]
        ELSE IF line = "partial" /\ name = gs[Len(gs)]
          THEN [some |-> FALSE, str |-> <<>>]
        ELSE [some |-> TRUE, str |-> <<"v", name>>]

\* A group that did not participate stored as the text NULL.
UnwrapOrNull(opt) == IF opt.some THEN opt.str ELSE <<"NULL">>

\* Option::unwrap_or_default on a captured string.
UnwrapOrDefault(opt) == IF opt.some THEN opt.str ELSE <<>>

\* values: one per column name other than "filename", then the file name.
Values(p, cols, line, fname) ==
    LET named == SelectSeq(cols, LAMBDA n : n # "filename")
    IN  [i \in 1..Len(named) |-> UnwrapOrDefault(CapturesName(p, line, named[i]))]
        \o <<fname>>

\* Every line counted, matching or not.
CountEveryLine(count, line) == count + 1

\* match_count after a line.
CountLine(count, line) == IF IsMatch(line) THEN count + 1 ELSE count

\* ----------------------------------------------------------- the store
ColumnSet(t) == {t.cols[i].name : i \in 1..Len(t.cols)}
Distinct(s) == \A i, j \in 1..Len(s) : s[i] = s[j] => i = j

\* CREATE TABLE IF NOT EXISTS: no effect on an existing table; a new table
\* with a repeated column name is rejected.
CreateAccepted(t, q) ==
    t.present \/ Distinct([i \in 1..Len(q.cols) |-> q.cols[i].name])
TableAfterCreate(t, q) ==
    IF t.present THEN t ELSE [present |-> TRUE, cols |-> q.cols]

\* An insert binds as many values as the statement has parameters and names
\* only columns of the table.
InsertAccepted(t, q, vals) ==
    /\ t.present
    /\ Len(vals) = Len(q.placeholders)
    /\ \A i \in 1..Len(q.cols) : q.cols[i] \in ColumnSet(t)

\* A dropped transaction whose rows stay in the store.
RollbackKeepsRows(committed, pending) == committed \o pending

\* The transaction is dropped without a commit: its rows are rolled back.
Rollback(committed, pending) == committed

\* tx.commit().
CommitRows(committed, pending) == committed \o pending

\* ------------------------------------------------------------------ Init
Init ==
    /\ regex_pattern \in Patterns
    /\ file_filter \in Filters
    /\ dirExists \in BOOLEAN
    /\ \E f \in Listings : entries = IF dirExists THEN EntriesOf(f) ELSE <<>>
    /\ initStore \in InitStores
    /\ storeExists = initStore.exists
    /\ table = initStore.table
    /\ rows = initStore.rows
    /\ pc = "Init"
    /\ column_names = <<>>
    /\ storeOpened = FALSE
    /\ log_files = <<>>
    /\ index = 0
    /\ total_matches = 0
    /\ match_count = 0
    /\ tx = <<>>
    /\ insert_query = InsertQuery(<<>>)
    /\ filename = <<>>
    /\ values = <<>>
    /\ lineNo = 0
    /\ listed = FALSE
    /\ opened = {}
    /\ txStarted = {}
    /\ returned = <<>>
    /\ failures = {}
    /\ failReason = "none"
    /\ failedAt = 0
    /\ committedBefore = <<>>

\* ------------------------------------------------------------- actions
\* A read or open error of a file skipped, the loop going on.
PropagateSkipIO(kind) == IF kind = "IOError" THEN "Processing" ELSE "Failed"

\* `?`: the error is returned to main's caller and the run ends.
Propagate(kind) == "Failed"

\* An error in main, outside process_file.
Fail(kind) ==
    /\ pc' = Propagate(kind)
    /\ failReason' = kind
    /\ failures' = failures \cup {kind}
    /\ UNCHANGED failedAt

\* An error inside process_file: the transaction, if any, is dropped and the
\* error is returned through main.
FailFile(kind) ==
    /\ pc' = Propagate(kind)
    /\ failReason' = kind
    /\ failures' = failures \cup {kind}
    /\ failedAt' = index
    /\ rows' = Rollback(rows, tx)
    /\ tx' = <<>>

\* main, lines 45-55: compile the pattern and derive the columns.
CompilePattern ==
    /\ pc = "Init"
    /\ IF RegexNew(regex_pattern)
         THEN /\ column_names' = ColumnNames(regex_pattern)
              /\ pc' = "PatternCompiled"
              /\ UNCHANGED failVars
         ELSE /\ Fail("PatternError")
              /\ UNCHANGED column_names
    /\ UNCHANGED <<envVars, storeVars, storeOpened, log_files, index,
                   total_matches, fileVars, histVars>>

\* main, line 58: Connection::open creates the store file when absent.
ConnectionOpen ==
    /\ pc = "PatternCompiled"
    /\ \E ok \in BOOLEAN :
         IF ok
           THEN /\ storeOpened' = TRUE
                /\ storeExists' = TRUE
                /\ pc' = "StoreOpen"
                /\ UNCHANGED failVars
           ELSE /\ Fail("StoreError")
                /\ UNCHANGED <<storeOpened, storeExists>>
    /\ UNCHANGED <<envVars, table, rows, column_names, log_files, index,
                   total_matches, fileVars, histVars>>

\* main, lines 59-68: create the table if it is absent.
CreateTable ==
    /\ pc = "StoreOpen"
    /\ LET q == CreateTableQuery(column_names)
       IN  \E ok \in BOOLEAN :
             IF ok /\ CreateAccepted(table, q)
               THEN /\ table' = TableAfterCreate(table, q)
                    /\ pc' = "SchemaReady"
                    /\ UNCHANGED failVars
               ELSE /\ Fail("SchemaError")
                    /\ UNCHANGED table
    /\ UNCHANGED <<envVars, storeExists, rows, mainVars, fileVars, histVars>>

\* main, lines 70-78, with find_matching_files, lines 142-158.
FindMatchingFiles ==
    /\ pc = "SchemaReady"
    /\ listed' = TRUE
    /\ \E ok \in BOOLEAN :
         IF ok /\ ReadDirOk(dirExists)
           THEN /\ log_files' = MatchingFiles(entries, file_filter)
                /\ failures' = failures \cup
                      (IF \E i \in 1..Len(entries) : ~entries[i].statOk
                         THEN {"EntryError"} ELSE {})
                /\ IF log_files' = <<>>
                     THEN pc' = "NoFilesFound" /\ UNCHANGED index
                     ELSE pc' = "Processing" /\ index' = 1
                /\ UNCHANGED <<failReason, failedAt>>
           ELSE /\ Fail("DirectoryError")
                /\ UNCHANGED <<log_files, index>>
    /\ UNCHANGED <<envVars, storeVars, column_names, storeOpened,
                   total_matches, fileVars, opened, txStarted, returned,
                   committedBefore>>

\* process_file, lines 102-104: open the file.
FileOpen ==
    /\ pc = "Processing"
    /\ opened' = opened \cup {index}
    /\ committedBefore' = rows
    /\ \E ok \in BOOLEAN :
         IF ok
           THEN /\ pc' = "FileOpened"
                /\ match_count' = 0
                /\ lineNo' = 0
                /\ UNCHANGED <<failVars, rows, tx>>
           ELSE /\ FailFile("IOError")
                /\ UNCHANGED <<match_count, lineNo>>
    /\ UNCHANGED <<envVars, storeExists, table, mainVars, insert_query,
                   filename, values, listed, txStarted, returned>>

\* process_file, lines 106-115: start the transaction, build the statement.
TxBegin ==
    /\ pc = "FileOpened"
    /\ \E ok \in BOOLEAN :
         IF ok
           THEN /\ txStarted' = txStarted \cup {index}
                /\ tx' = <<>>
                /\ insert_query' = InsertQuery(column_names)
                /\ filename' = FileName(log_files[index])
                /\ pc' = "Reading"
                /\ UNCHANGED <<failVars, rows>>
           ELSE /\ FailFile("StoreError")
                /\ UNCHANGED <<txStarted, insert_query, filename>>
    /\ UNCHANGED <<envVars, storeExists, table, mainVars, match_count,
                   values, lineNo, listed, opened, returned, committedBefore>>

\* process_file, lines 117-134: one iteration of the loop over the lines.
ReadLine ==
    /\ pc = "Reading"
    /\ lineNo < Len(LinesOf(log_files[index]))
    /\ LET line == LinesOf(log_files[index])[lineNo + 1]
           vals == Values(regex_pattern, column_names, line, filename)
           row  == [cols |-> insert_query.cols, vals |-> vals,
                    src |-> <<index, lineNo + 1>>]
       IN  \E readOk, insertOk \in BOOLEAN :
             IF ~readOk
               THEN /\ FailFile("IOError")
                    /\ UNCHANGED <<match_count, values, lineNo>>
             ELSE IF ~IsMatch(line)
               THEN /\ lineNo' = lineNo + 1
                    /\ match_count' = CountLine(match_count, line)
                    /\ UNCHANGED <<pc, failVars, rows, tx, values>>
             ELSE /\ match_count' = CountLine(match_count, line)
                  /\ values' = vals
                  /\ lineNo' = lineNo + 1
                  /\ IF insertOk /\ InsertAccepted(table, insert_query, vals)
                       THEN /\ tx' = Append(tx, row)
                            /\ UNCHANGED <<pc, failVars, rows>>
                       ELSE FailFile("InsertError")
    /\ UNCHANGED <<envVars, storeExists, table, mainVars, insert_query,
                   filename, histVars>>

\* The loop of main, lines 81-91: after a file, the next one or the end.
AfterFile(i, n) == IF i = n THEN "Done" ELSE "Processing"

\* process_file, lines 136-138, and main, line 88: after the last line the
\* transaction is committed and the file's count is added to the total.
Commit ==
    /\ pc = "Reading"
    /\ lineNo = Len(LinesOf(log_files[index]))
    /\ \E ok \in BOOLEAN :
         IF ok
           THEN /\ rows' = CommitRows(rows, tx)
                /\ tx' = <<>>
                /\ returned' = Append(returned, match_count)
                /\ total_matches' = total_matches + match_count
                /\ pc' = AfterFile(index, Len(log_files))
                /\ index' = index + 1
                /\ UNCHANGED failVars
           ELSE /\ FailFile("CommitError")
                /\ UNCHANGED <<returned, total_matches, index>>
    /\ UNCHANGED <<envVars, storeExists, table, column_names, storeOpened,
                   log_files, match_count, insert_query, filename, values,
                   lineNo, listed, opened, txStarted, committedBefore>>

Next ==
    \/ CompilePattern
    \/ ConnectionOpen
    \/ CreateTable
    \/ FindMatchingFiles
    \/ FileOpen
    \/ TxBegin
    \/ ReadLine
    \/ Commit

Spec == Init /\ [][Next]_vars

\* ------------------------------------------------------ helpers of claims
RECURSIVE Sum(_)
Sum(s) == IF s = <<>> THEN 0 ELSE s[1] + Sum(Tail(s))

RowsOfFile(rs, f) == SelectSeq(rs, LAMBDA r : r.src[1] = f)
RowsOfLine(rs, f, n) == SelectSeq(rs, LAMBDA r : r.src = <<f, n>>)
MatchingLineNos(ls) == {n \in 1..Len(ls) : ls[n] # "nomatch"}
Groups == SelectSeq(regex_pattern.slots, LAMBDA n : n # NoName)
\* The direct children of log_dir that are regular files named with the
\* filter, the files process_file was called for, the files of subdirectories.
ExpectedFiles ==
    {<<LogDir, entries[i].name>> :
        i \in {j \in 1..Len(entries) :
                  /\ entries[j].kind = "file"
                  /\ Contains(entries[j].name, file_filter)}}
ProcessedFiles == {log_files[i] : i \in opened}
NestedFiles ==
    {<<LogDir, entries[i].name, NestedName>> :
        i \in {j \in 1..Len(entries) : entries[j].kind = "dir"}}
StoreUntouched ==
    /\ ~storeOpened
    /\ storeExists = initStore.exists
    /\ table = initStore.table
    /\ rows = initStore.rows

\* ---------------------------------------------------------------- claims
\* C1: per-file atomicity.  In every state, the store holds for each selected
\* file either all the rows of its matching lines, and then process_file has
\* committed and returned for it, or none of them.
C1_PerFileAtomicity ==
    \A f \in 1..Len(log_files) :
        LET mine == RowsOfFile(rows, f)
            want == MatchingLineNos(LinesOf(log_files[f]))
        IN  IF f <= Len(returned)
              THEN /\ {mine[i].src[2] : i \in 1..Len(mine)} = want
                   /\ Len(mine) = Cardinality(want)
              ELSE Len(mine) = 0

\* A first file committed with rows, the second failed at its commit with
\* rows pending.
C1_Witness ==
    /\ pc = "Failed"
    /\ failReason = "CommitError"
    /\ failedAt = 2
    /\ match_count > 0
    /\ returned[1] > 0

\* C2: fail-fast with durable prefix.  Once process_file has failed on file
\* i the run is in the terminal state Failed (no step is enabled), no file
\* after i has been opened or given a transaction, and the store holds what
\* it held when file i began: the rows committed for the files before i.
C2_FailFast ==
    failedAt # 0 =>
        /\ pc = "Failed"
        /\ ~ENABLED Next
        /\ opened \subseteq 1..failedAt
        /\ txStarted \subseteq 1..failedAt
        /\ rows = committedBefore
        /\ Len(returned) = failedAt - 1
        /\ \A f \in 1..(failedAt - 1) :
               Len(RowsOfFile(rows, f)) = returned[f]

C2_Witness ==
    /\ failedAt = 2
    /\ Len(log_files) = 2
    /\ returned[1] > 0
    /\ Len(rows) > Len(initStore.rows)

\* C3: row count.  At Done the number of rows the run added equals the sum of
\* the counts process_file returned, one per selected file, and equals
\* total_matches.
C3_RowCount ==
    pc = "Done" =>
        /\ Len(returned) = Len(log_files)
        /\ Len(rows) - Len(initStore.rows) = Sum(returned)
        /\ total_matches = Sum(returned)

C3_Witness ==
    /\ pc = "Done"
    /\ Len(log_files) = 2
    /\ total_matches >= 2
    /\ \E n \in 1..Len(LinesOf(log_files[1])) :
           LinesOf(log_files[1])[n] = "nomatch"

\* C4: for every line of every file process_file has returned for: a line
\* that does not match has no row; a matching line has exactly one row, with
\* the columns of the pattern's named groups then "filename", the captured
\* text of each group that participated, the empty string for one that did
\* not, and the base name of the file.
C4_RowPerMatch ==
    \A f \in 1..Len(returned) :
        LET ls == LinesOf(log_files[f])
        IN  \A n \in 1..Len(ls) :
              LET rs == RowsOfLine(rows, f, n)
              IN  IF ls[n] = "nomatch"
                    THEN rs = <<>>
                    ELSE /\ Len(rs) = 1
                         /\ rs[1].cols = Groups \o <<"filename">>
                         /\ Len(rs[1].vals) = Len(Groups) + 1
                         /\ rs[1].vals[Len(Groups) + 1] = log_files[f][2]
                         /\ \A j \in 1..Len(Groups) :
                              rs[1].vals[j] =
                                IF ls[n] = "full" \/ j < Len(Groups)
                                  THEN <<"v", Groups[j]>>
                                  ELSE <<>>

\* A committed file with a line that does not match and a row of a line
\* where a group did not participate.
C4_Witness ==
    \E f \in 1..Len(returned) :
        /\ Len(LinesOf(log_files[f])) >= 2
        /\ LinesOf(log_files[f])[1] = "nomatch"
        /\ LinesOf(log_files[f])[2] = "partial"
        /\ Len(RowsOfLine(rows, f, 2)) = 1
        /\ Len(Groups) = 2
        /\ RowsOfLine(rows, f, 2)[1].vals[2] = <<>>

\* C5, as stated: when log_dir does not exist the run aborts with a
\* directory error and the store was neither created nor opened.
C5_NoStoreOnMissingDir ==
    (listed /\ ~dirExists) =>
        /\ pc = "Failed"
        /\ failReason = "DirectoryError"
        /\ StoreUntouched

\* C5, amended: when log_dir does not exist the run aborts with a directory
\* error before any log file is opened, any transaction started or any row
\* inserted; by then the store has been opened and holds log_data.
C5_MissingDirAborts ==
    (listed /\ ~dirExists) =>
        /\ pc = "Failed"
        /\ failReason = "DirectoryError"
        /\ storeOpened
        /\ storeExists
        /\ table.present
        /\ rows = initStore.rows
        /\ log_files = <<>>
        /\ opened = {}
        /\ txStarted = {}

\* The store did not exist before the run and exists after it.
C5_Witness ==
    /\ listed
    /\ ~dirExists
    /\ ~initStore.exists
    /\ storeExists
    /\ pc = "Failed"

\* C6: with an invalid pattern the run aborts at the compilation: the store
\* is not opened and is as it was, no directory is listed, no file opened.
C6_InvalidPattern ==
    (~regex_pattern.valid /\ pc # "Init") =>
        /\ pc = "Failed"
        /\ failReason = "PatternError"
        /\ StoreUntouched
        /\ ~listed
        /\ opened = {}
        /\ txStarted = {}

C6_Witness ==
    /\ ~regex_pattern.valid
    /\ pc = "Failed"
    /\ initStore.exists

\* C7: the files processed are exactly the direct children of log_dir that
\* are regular files and whose name contains the filter; nothing else is
\* processed, and an empty selection ends the run at NoFilesFound with no
\* transaction and no row.
C7_FileSelection ==
    (listed /\ failReason # "DirectoryError") =>
        /\ {log_files[i] : i \in 1..Len(log_files)} = ExpectedFiles
        /\ ProcessedFiles \subseteq ExpectedFiles
        /\ ProcessedFiles \cap NestedFiles = {}
        /\ pc = "Done" => ProcessedFiles = ExpectedFiles
        /\ pc = "NoFilesFound" <=> ExpectedFiles = {}
        /\ pc = "NoFilesFound" => txStarted = {} /\ rows = initStore.rows

\* C8: a table created by the run has the pattern's named groups, in their
\* order, then "filename", all TEXT; every insert statement and every row of
\* the run names that same column list.
C8_Columns ==
    LET want == Groups \o <<"filename">>
    IN  /\ (~initStore.table.present /\ table.present) =>
              table.cols = [i \in 1..Len(want) |->
                               [name |-> want[i], type |-> "TEXT"]]
        /\ txStarted # {} => insert_query.cols = want
        /\ \A i \in 1..Len(tx) : tx[i].cols = want
        /\ \A i \in 1..Len(rows) : rows[i].src[1] > 0 => rows[i].cols = want

C8_Witness ==
    /\ ~initStore.table.present
    /\ regex_pattern.slots = <<"level", NoName, "code">>
    /\ Len(table.cols) = 3
    /\ Len(rows) >= 1
    /\ Len(tx) >= 1

\* C9: no failure is absorbed: a run that ends at Done or at NoFilesFound
\* met no failure.
C9_NoErrorSwallowed ==
    pc \in {"Done", "NoFilesFound"} => failures = {}

\* C10: the values bound to the insert statement are as many as the columns
\* and placeholders the statement names.
C10_InsertArity ==
    values # <<>> =>
        /\ Len(values) = Len(insert_query.cols)
        /\ Len(values) = Len(insert_query.placeholders)
====
